---- MODULE Spec2Model ----
(***************************************************************************)
(* Model of app.py: the CSV loader (load_data, memoised by st.cache_data), *)
(* the two tabs of the Streamlit script (model comparison with the         *)
(* hide-identical filter, and the parameter filter) and the PDF builder    *)
(* (create_pdf).                                                           *)
(*                                                                         *)
(* Every string of the program is a sequence of one-character strings, so  *)
(* that strip() and replace() are computed character by character.         *)
(* A DataFrame is a record [columns, rows]: the column labels in order and *)
(* the rows in order, each row a sequence of cells aligned with columns.   *)
(* The transposed frame of tab 1 also carries its index (the row labels).  *)
(***************************************************************************)
EXTENDS Integers, Sequences, FiniteSets, TLC

VARIABLES disk, cache, reads, HAS_REPORTLAB, run, pdf_arg, pdf_res

vars == <<disk, cache, reads, HAS_REPORTLAB, run, pdf_arg, pdf_res>>

----------------------------------------------------------------------------
(* Strings.  A character outside ASCII is written by its code point. *)

MODEL == <<"M", "o", "d", "e", "l">>
PRODUCT == <<"P", "r", "o", "d", "u", "c", "t">>
XINGHAO == <<"U+578B", "U+53F7">>
CANSHU_XINGHAO == <<"U+53C2", "U+6570", " ", "/", " ", "U+578B", "U+53F7">>
PARAM_ITEM == <<"U+53C2", "U+6570", "U+9879">>
INDEX == <<"i", "n", "d", "e", "x">>
LEVEL_0 == <<"l", "e", "v", "e", "l", "_", "0">>
SENTINEL == <<"-">>
BR == <<"<", "b", "r", "/", ">">>
LT == <<"&", "l", "t", ";">>
GT == <<"&", "g", "t", ";">>

\* A missing cell (NaN): a value that is no string of characters.
NULL == <<"NaN">>

\* The characters str.strip() removes.
Whitespace == {" ", "\t", "\n", "\r"}

RECURSIVE lstrip(_)
lstrip(s) ==
    IF s # <<>> /\ Head(s) \in Whitespace THEN lstrip(Tail(s)) ELSE s

RECURSIVE rstrip(_)
rstrip(s) ==
    IF s # <<>> /\ s[Len(s)] \in Whitespace
    THEN rstrip(SubSeq(s, 1, Len(s) - 1))
    ELSE s

\* c.strip()
strip(s) == rstrip(lstrip(s))

\* text.replace(old, new) for a one-character old
RECURSIVE replace(_, _, _)
replace(text, old, new) ==
    IF text = <<>> THEN <<>>
    ELSE (IF Head(text) = old THEN new ELSE <<Head(text)>>)
         \o replace(Tail(text), old, new)

----------------------------------------------------------------------------
(* Sequence helpers *)

Range(s) == {s[i] : i \in DOMAIN s}

\* The positions of s, in increasing order.
Indices(s) == [i \in 1..Len(s) |-> i]

\* s restricted to the positions pos, in the order of pos.
Take(s, pos) == [k \in 1..Len(pos) |-> s[pos[k]]]

\* list(dict.fromkeys(s)): the distinct elements of s in order of first
\* appearance (Series.unique().tolist()).
RECURSIVE unique(_)
unique(s) ==
    IF s = <<>> THEN <<>>
    ELSE LET init == unique(SubSeq(s, 1, Len(s) - 1))
             last == s[Len(s)]
         IN IF last \in Range(init) THEN init ELSE Append(init, last)

\* All sequences over S of length at most n.
RECURSIVE SeqsUpTo(_, _)
SeqsUpTo(S, n) ==
    IF n = 0 THEN {<<>>}
    ELSE LET shorter == SeqsUpTo(S, n - 1)
         IN shorter \cup {Append(s, x) : s \in {t \in shorter : Len(t) = n - 1}, x \in S}

Distinct(s) == \A i, j \in DOMAIN s : s[i] = s[j] => i = j

\* The sequences over S of length at most n without a repeated element: what
\* a multiselect over the options S can return, in the order of the clicks.
DistinctSeqsUpTo(S, n) == {s \in SeqsUpTo(S, n) : Distinct(s)}

----------------------------------------------------------------------------
(* load_data *)

\* No CSV file in the directory (target_file is None).
NoFile == [exists |-> FALSE, columns |-> <<>>, rows |-> <<>>]

\* The value load_data returns: a DataFrame, or None (ok = FALSE); error
\* tells whether st.error reported a read failure.
None(error) == [ok |-> FALSE, error |-> error, columns |-> <<>>, rows |-> <<>>]

possible_names == <<CANSHU_XINGHAO, XINGHAO, MODEL, PRODUCT>>

\* for name in possible_names: if name in df.columns: model_col = name; break
\* (i is the position the loop has reached; <<>> stands for None).
RECURSIVE ScanNames(_, _)
ScanNames(columns, i) ==
    IF i > Len(possible_names) THEN <<>>
    ELSE IF possible_names[i] \in Range(columns) THEN possible_names[i]
    ELSE ScanNames(columns, i + 1)

\* model_col with the priority list scanned from its last name to its first.
RECURSIVE ScanNamesBackwards(_, _)
ScanNamesBackwards(columns, i) ==
    IF i < 1 THEN <<>>
    ELSE IF possible_names[i] \in Range(columns) THEN possible_names[i]
    ELSE ScanNamesBackwards(columns, i - 1)

model_col_backwards(columns) ==
    LET found == ScanNamesBackwards(columns, Len(possible_names))
    IN IF found = <<>> THEN columns[1] ELSE found

\* model_col: the scan's result, or df.columns[0] when the scan found nothing
\* (not model_col is also true of an empty name).
model_col(columns) ==
    LET found == ScanNames(columns, 1)
    IN IF found = <<>> THEN columns[1] ELSE found

\* df.rename(columns={old: new}): every column labelled old is relabelled.
rename(columns, old, new) ==
    [i \in DOMAIN columns |-> IF columns[i] = old THEN new ELSE columns[i]]

\* fillna left out: missing cells stay missing.
fillna_skipped(rows) == rows

\* df.fillna("-")
fillna(rows) ==
    [r \in DOMAIN rows |->
        [c \in DOMAIN rows[r] |-> IF rows[r][c] = NULL THEN SENTINEL ELSE rows[r][c]]]

\* The body of load_data on the file found in the directory.  pd.read_csv
\* raises on a file without columns, and so would df.columns[0]; both are
\* inside the try and end in st.error and None.
load_data_body(file) ==
    IF ~file.exists THEN None(FALSE)
    ELSE IF Len(file.columns) = 0 THEN None(TRUE)
    ELSE LET columns == [i \in DOMAIN file.columns |-> strip(file.columns[i])]
         IN [ok |-> TRUE, error |-> FALSE,
             columns |-> rename(columns, model_col(columns), MODEL),
             rows |-> fillna(file.rows)]

\* The memo of st.cache_data: empty, or the value of the first call.
NotCached == [cached |-> FALSE, value |-> None(FALSE)]

\* load_data without the decorator: the body runs on every call.
load_data_uncached(memo, file) == [value |-> load_data_body(file), read |-> TRUE]

\* The decorated load_data: st.cache_data runs the body on the first call and
\* replays the memoised value on every later one (read tells whether the body
\* ran, and so whether the file was read).
load_data(memo, file) ==
    IF memo.cached THEN [value |-> memo.value, read |-> FALSE]
    ELSE [value |-> load_data_body(file), read |-> TRUE]

----------------------------------------------------------------------------
(* create_pdf *)

\* The renderer (reportlab) is outside the program: a call into it may raise.
\* A fault names the first call of one create_pdf run that raises:
\* a header Paragraph, a body Paragraph, Table, doc.build, or none.
Faults == {"none", "header", "body", "table", "build"}

\* Whether create_pdf makes the call the fault is about.
Applicable(dataframe, fault) ==
    CASE fault = "header" -> Len(dataframe.columns) > 0
      [] fault = "body" -> Len(dataframe.columns) > 0 /\ Len(dataframe.rows) > 0
      [] OTHER -> TRUE

\* text = str(item) if pd.notnull(item) else "-"
\* text = text.replace('\n', '<br/>').replace('<', '&lt;').replace('>', '&gt;')
clean(item) ==
    LET text == IF item # NULL THEN item ELSE SENTINEL
    IN replace(replace(replace(text, "\n", BR), "<", LT), ">", GT)

\* landscape(A4)[0] - 60, in whole points
page_width == 781

\* What one call of create_pdf did: status is "doc" (the buffer is returned),
\* "none" (None is returned) or "raised" (an exception left the function);
\* step is the call that failed; header and body are the texts given to
\* Paragraph; table tells whether Table(data, colWidths) was called.
PdfResult(status, step, header, body, divided, col_width, table) ==
    [status |-> status, step |-> step, header |-> header, body |-> body,
     divided |-> divided, col_width |-> col_width, table |-> table]

create_pdf(dataframe, fault) ==
    LET cols == dataframe.columns
        header == cols
        body == [r \in DOMAIN dataframe.rows |->
                    [c \in DOMAIN dataframe.rows[r] |-> clean(dataframe.rows[r][c])]]
        divided == Len(cols) > 0
        col_width == IF Len(cols) > 0 THEN page_width \div Len(cols) ELSE 0
    IN IF ~HAS_REPORTLAB
       THEN PdfResult("none", "import", <<>>, <<>>, FALSE, 0, FALSE)
       ELSE IF fault = "header" /\ Applicable(dataframe, fault)
       THEN PdfResult("raised", "header", header, <<>>, FALSE, 0, FALSE)
       ELSE IF fault = "body" /\ Applicable(dataframe, fault)
       THEN PdfResult("raised", "body", header, body, FALSE, 0, FALSE)
       ELSE IF fault = "table"
       THEN PdfResult("raised", "table", header, body, divided, col_width, TRUE)
       ELSE IF fault = "build"
       THEN PdfResult("none", "build", header, body, divided, col_width, TRUE)
       ELSE PdfResult("doc", "", header, body, divided, col_width, TRUE)

\* create_pdf was not called.
NoPdf == PdfResult("skipped", "", <<>>, <<>>, FALSE, 0, FALSE)

----------------------------------------------------------------------------
(* The script: one run from top to bottom *)

Min(a, b) == IF a < b THEN a ELSE b

\* The positions of the columns labelled label.
ColPos(columns, label) == SelectSeq(Indices(columns), LAMBDA i : columns[i] = label)

\* df['Model'] is a Series only when exactly one column is labelled Model;
\* with several it is a DataFrame, and .unique() raises AttributeError.
HasOneModel(df) == Len(ColPos(df.columns, MODEL)) = 1

ModelPos(df) == ColPos(df.columns, MODEL)[1]

\* df['Model'].unique().tolist()
all_models_of(df) == unique([r \in DOMAIN df.rows |-> df.rows[r][ModelPos(df)]])

\* The rows of the selected identifiers in the order of the selection.
RECURSIVE isin_rows_by_selection(_, _)
isin_rows_by_selection(df, selected) ==
    IF selected = <<>> THEN <<>>
    ELSE SelectSeq(df.rows, LAMBDA row : row[ModelPos(df)] = Head(selected))
         \o isin_rows_by_selection(df, Tail(selected))

\* df[df['Model'].isin(selected)]: the rows whose identifier is selected, in
\* the order of df.
isin_rows(df, selected) ==
    Take(df.rows, SelectSeq(Indices(df.rows),
                            LAMBDA r : df.rows[r][ModelPos(df)] \in Range(selected)))

\* The positions of the columns other than Model.
ParamPos(df) == SelectSeq(Indices(df.columns), LAMBDA i : df.columns[i] # MODEL)

\* param_options = [c for c in df.columns if c != 'Model']
param_options_of(df) == SelectSeq(df.columns, LAMBDA c : c # MODEL)

\* subset.set_index('Model').T
transpose(df, subset) ==
    [index |-> param_options_of(df),
     columns |-> [j \in DOMAIN subset |-> subset[j][ModelPos(df)]],
     rows |-> [k \in DOMAIN ParamPos(df) |->
                  [j \in DOMAIN subset |-> subset[j][ParamPos(df)[k]]]]]

\* x.nunique(): the number of distinct values, NaN not counted
nunique(x) == Cardinality({v \in Range(x) : v # NULL})

\* diff_mask = df_display.apply(lambda x: x.nunique() > 1, axis=1)
\* df_display = df_display[diff_mask]
hide_same_rows(df_display) ==
    LET keep == SelectSeq(Indices(df_display.rows),
                          LAMBDA k : nunique(df_display.rows[k]) > 1)
    IN [index |-> Take(df_display.index, keep),
        columns |-> df_display.columns,
        rows |-> Take(df_display.rows, keep)]

\* df_display.reset_index().rename(columns={'index': PARAM_ITEM}): the index
\* becomes a first column, labelled 'index' unless a column has that label.
reset_index_rename(df_display) ==
    LET label == IF INDEX \in Range(df_display.columns) THEN LEVEL_0 ELSE INDEX
    IN [columns |-> rename(<<label>> \o df_display.columns, INDEX, PARAM_ITEM),
        rows |-> [k \in DOMAIN df_display.rows |->
                     <<df_display.index[k]>> \o df_display.rows[k]]]

\* The positions frame[labels] selects: for each label in turn, every column
\* that carries it.
RECURSIVE LabelPositions(_, _)
LabelPositions(columns, labels) ==
    IF labels = <<>> THEN <<>>
    ELSE ColPos(columns, Head(labels)) \o LabelPositions(columns, Tail(labels))

\* The selected columns in the order of the table instead of the order asked.
select_columns_table_order(columns, rows, labels) ==
    [columns |-> SelectSeq(columns, LAMBDA c : c \in Range(labels)),
     rows |-> [r \in DOMAIN rows |->
                  Take(rows[r], SelectSeq(Indices(columns),
                                          LAMBDA i : columns[i] \in Range(labels)))]]

\* filtered[['Model'] + selected_params]
select_columns(columns, rows, labels) ==
    LET pos == LabelPositions(columns, labels)
    IN [columns |-> Take(columns, pos),
        rows |-> [r \in DOMAIN rows |-> Take(rows[r], pos)]]

NoFrame == [columns |-> <<>>, rows |-> <<>>]
NoMatrix == [index |-> <<>>, columns |-> <<>>, rows |-> <<>>]

\* Lines 311-335: the export of tab 1.  csv and pdf tell which downloads the
\* page offers; pdf is what create_pdf did.
Tab1Export(df_display, export_df, fault) ==
    [shown |-> "matrix", df_display |-> df_display, export_df |-> export_df,
     csv |-> TRUE,
     pdf |-> IF HAS_REPORTLAB THEN create_pdf(export_df, fault) ELSE NoPdf]

\* Lines 284-312: the matrix is displayed and export_df is derived from it.
Tab1Display(df_display, fault) ==
    Tab1Export(df_display, reset_index_rename(df_display), fault)

\* Lines 278-282
Tab1Filter(pivot, hide_same, fault) ==
    Tab1Display(IF hide_same THEN hide_same_rows(pivot) ELSE pivot, fault)

\* Tab 1 without the test of line 272.
Tab1_unguarded(df, selected_models, hide_same, fault) ==
    Tab1Filter(transpose(df, isin_rows(df, selected_models)), hide_same, fault)

\* Tab 1 (lines 253-338).  shown is "matrix" when the comparison was displayed
\* and "empty" when st.info asked for a selection.
Tab1(df, selected_models, hide_same, fault) ==
    IF selected_models = <<>>
    THEN [shown |-> "empty", df_display |-> NoMatrix, export_df |-> NoFrame,
          csv |-> FALSE, pdf |-> NoPdf]
    ELSE Tab1Filter(transpose(df, isin_rows(df, selected_models)), hide_same, fault)

\* Lines 373-398: the view is displayed and exported.  No message is shown
\* when create_pdf returns None.
Tab2Export(final_view, fault) ==
    [shown |-> "view", final_view |-> final_view, csv |-> TRUE,
     pdf |-> IF HAS_REPORTLAB THEN create_pdf(final_view, fault) ELSE NoPdf]

\* Tab 2 (lines 343-400)
Tab2(df, selected_params, selected_models_tab2, fault) ==
    IF selected_params = <<>> \/ selected_models_tab2 = <<>>
    THEN [shown |-> "empty", final_view |-> NoFrame, csv |-> FALSE, pdf |-> NoPdf]
    ELSE Tab2Export(select_columns(df.columns, isin_rows(df, selected_models_tab2),
                                   <<MODEL>> \o selected_params), fault)

NoTab1 == [shown |-> "none", df_display |-> NoMatrix, export_df |-> NoFrame,
           csv |-> FALSE, pdf |-> NoPdf]
NoTab2 == [shown |-> "none", final_view |-> NoFrame, csv |-> FALSE, pdf |-> NoPdf]

\* What one run of the script left on the page.  stage is "no_data" (st.stop
\* after the warning), "raised" (an uncaught exception ended the run; at names
\* the statement) or "done".
Page(stage, at, df, inputs, tab1, tab2) ==
    [stage |-> stage, at |-> at, df |-> df, inputs |-> inputs, tab1 |-> tab1, tab2 |-> tab2]

\* The values of the four widgets.
Inputs(selected_models, hide_same, selected_params, selected_models_tab2) ==
    [selected_models |-> selected_models, hide_same |-> hide_same,
     selected_params |-> selected_params, selected_models_tab2 |-> selected_models_tab2]

NoInputs == Inputs(<<>>, FALSE, <<>>, <<>>)

\* Lines 343-400 after tab 2: an exception of create_pdf ends the run.
AfterTab2(df, inputs, tab1, tab2) ==
    IF tab2.pdf.status = "raised"
    THEN Page("raised", "pdf_tab2", df, inputs, tab1, tab2)
    ELSE Page("done", "", df, inputs, tab1, tab2)

\* Lines 253-400 after tab 1: an exception of create_pdf ends the run before
\* tab 2 is reached.
AfterTab1(df, inputs, tab1, fault2) ==
    IF tab1.pdf.status = "raised"
    THEN Page("raised", "pdf_tab1", df, inputs, tab1, NoTab2)
    ELSE AfterTab2(df, inputs, tab1,
                   Tab2(df, inputs.selected_params, inputs.selected_models_tab2, fault2))

\* Lines 237-400 on the loaded value df; fault1 and fault2 are the renderer's
\* faults in the create_pdf calls of tab 1 and of tab 2.
Script(df, inputs, fault1, fault2) ==
    IF ~df.ok THEN Page("no_data", "", df, NoInputs, NoTab1, NoTab2)
    ELSE IF ~HasOneModel(df) THEN Page("raised", "all_models", df, NoInputs, NoTab1, NoTab2)
    ELSE AfterTab1(df, inputs,
                   Tab1(df, inputs.selected_models, inputs.hide_same, fault1), fault2)

----------------------------------------------------------------------------
(* Bounds and input universes *)

MaxRows == 2
MaxSmallRows == 1
MaxLoadCols == 2
MaxLoadRows == 1
MaxLen == 2
MaxLabelLen == 1
MaxReads == 2

P1 == <<"P", "1">>
P2 == <<"P", "2">>
A == <<"A">>
B == <<"B">>

\* The rows under header: an identifier of ids under a label of
\* possible_names, a value of vals under any other label.
RowsOf(header, ids, vals) ==
    {row \in [1..Len(header) -> ids \cup vals] :
        \A c \in 1..Len(header) :
            row[c] \in (IF strip(header[c]) \in Range(possible_names) THEN ids ELSE vals)}

\* The CSV files with a header of headers and at most maxrows rows.
Files(headers, ids, vals, maxrows) ==
    UNION {{[exists |-> TRUE, columns |-> header, rows |-> rows] :
               rows \in SeqsUpTo(RowsOf(header, ids, vals), maxrows)} : header \in headers}

Padded(name) == {name, <<" ">> \o name \o <<" ">>}

\* Headers as pd.read_csv delivers them: labels pairwise distinct (it renames
\* repeated ones), surrounding blanks kept.
LoadNames == UNION {Padded(n) : n \in {CANSHU_XINGHAO, XINGHAO, MODEL, PRODUCT, P1, P2}}
LoadFiles == Files(DistinctSeqsUpTo(LoadNames, MaxLoadCols), {A}, {NULL}, MaxLoadRows)

\* Small files: none, one without columns, one whose header holds two
\* identifier labels, an ordinary one.
SmallFiles ==
    {NoFile} \cup Files({<<>>, <<XINGHAO, MODEL>>, <<MODEL, P1>>},
                        {A, B}, {NULL, <<"1">>}, MaxSmallRows)

CacheFiles == {NoFile} \cup Files({<<>>, <<MODEL, P1>>}, {A, B}, {NULL, <<"1">>}, MaxSmallRows)

\* Files of two parameters with the identifier in the middle column, its
\* label padded; identifiers may repeat and values may be missing.
TabHeader == <<P1, <<" ">> \o XINGHAO, P2>>
TabFiles == Files({TabHeader}, {A, B}, {NULL, <<"1">>}, MaxRows)

\* The strings a cell and a label may hold.
Chars == {"a", "\n", "<", ">"}
Texts == SeqsUpTo(Chars, MaxLen)
Labels == SeqsUpTo(Chars, MaxLabelLen)

\* The frames create_pdf is applied to: no column or one, no row or one.
Grids ==
    {[columns |-> <<>>, rows |-> <<>>], [columns |-> <<>>, rows |-> <<<<>>>>]}
    \cup {[columns |-> <<c>>, rows |-> <<>>] : c \in Labels}
    \cup {[columns |-> <<c>>, rows |-> <<<<v>>>>] : c \in Labels, v \in Texts \cup {NULL}}

----------------------------------------------------------------------------
(* State *)

NoPage == Page("init", "", None(FALSE), NoInputs, NoTab1, NoTab2)

InitWith(files, grids, reportlab) ==
    /\ disk \in files
    /\ cache = NotCached
    /\ reads = 0
    /\ HAS_REPORTLAB \in reportlab
    /\ run = NoPage
    /\ pdf_arg \in grids
    /\ pdf_res = NoPdf

\* What load_data returns in this state.
CurDF == load_data(cache, disk).value

Usable(df) == df.ok /\ HasOneModel(df)

\* The widgets' options and defaults (lines 256-258, 348-351, 363-364).
all_models == IF Usable(CurDF) THEN all_models_of(CurDF) ELSE <<>>
default_sel == IF Len(all_models) >= 2 THEN SubSeq(all_models, 1, 2) ELSE all_models
param_options == IF Usable(CurDF) THEN param_options_of(CurDF) ELSE <<>>
default_params ==
    IF Len(param_options) >= 5 THEN SubSeq(param_options, 1, 5) ELSE param_options
default_models_tab2 ==
    IF Len(all_models) >= 3 THEN SubSeq(all_models, 1, 3) ELSE all_models

\* The widgets of a tab are on the page, built from the table load_data returns
\* now: an interaction with them keeps the other widgets' values.
OnPage(shown) == run.stage \in {"done", "raised"} /\ run.df = CurDF /\ shown # "none"

\* The widgets' values in the session: those of the last run while the
\* widgets are on the page, the defaults otherwise.
cur_selected_models ==
    IF OnPage(run.tab1.shown) THEN run.inputs.selected_models ELSE default_sel
cur_hide_same == IF OnPage(run.tab1.shown) THEN run.inputs.hide_same ELSE FALSE
cur_selected_params ==
    IF OnPage(run.tab2.shown) THEN run.inputs.selected_params ELSE default_params
cur_selected_models_tab2 ==
    IF OnPage(run.tab2.shown) THEN run.inputs.selected_models_tab2 ELSE default_models_tab2

\* s without its i-th element
Remove(s, i) == SubSeq(s, 1, i - 1) \o SubSeq(s, i + 1, Len(s))

\* The renderer's faults in the two create_pdf calls of a run, drawn from
\* faults: at most one of the two calls fails.
FaultPairs(faults) == {<<f, "none">> : f \in faults} \cup {<<"none", f>> : f \in faults}

\* Lines 237-400 once load_data has returned.
Loaded(loaded, inputs, fault1, fault2) ==
    /\ cache' = [cached |-> TRUE, value |-> loaded.value]
    /\ reads' = IF loaded.read THEN Min(reads + 1, MaxReads) ELSE reads
    /\ run' = Script(loaded.value, inputs, fault1, fault2)
    /\ UNCHANGED <<disk, HAS_REPORTLAB, pdf_arg, pdf_res>>

\* One run of the script with the widgets at the given values.
Rerun(inputs, faults) ==
    \E f \in FaultPairs(faults) : Loaded(load_data(cache, disk), inputs, f[1], f[2])

\* The page is opened or reloaded: every widget is at its default.
Open(faults) ==
    Rerun(Inputs(default_sel, FALSE, default_params, default_models_tab2), faults)

\* The user adds a model to the multiselect of tab 1.
SelectModel(faults) ==
    /\ OnPage(run.tab1.shown)
    /\ \E m \in Range(all_models) \ Range(cur_selected_models) :
          Rerun(Inputs(Append(cur_selected_models, m), cur_hide_same,
                       cur_selected_params, cur_selected_models_tab2), faults)

\* The user removes a model from the multiselect of tab 1.
DeselectModel(faults) ==
    /\ OnPage(run.tab1.shown)
    /\ \E i \in DOMAIN cur_selected_models :
          Rerun(Inputs(Remove(cur_selected_models, i), cur_hide_same,
                       cur_selected_params, cur_selected_models_tab2), faults)

\* The user ticks or unticks the hide-identical checkbox.
ToggleHideSame(faults) ==
    /\ OnPage(run.tab1.shown)
    /\ Rerun(Inputs(cur_selected_models, ~cur_hide_same,
                    cur_selected_params, cur_selected_models_tab2), faults)

\* The user adds a parameter to the first multiselect of tab 2.
SelectParam ==
    /\ OnPage(run.tab2.shown)
    /\ \E c \in Range(param_options) \ Range(cur_selected_params) :
          Rerun(Inputs(cur_selected_models, cur_hide_same,
                       Append(cur_selected_params, c), cur_selected_models_tab2), {"none"})

\* The user removes a parameter from the first multiselect of tab 2.
DeselectParam ==
    /\ OnPage(run.tab2.shown)
    /\ \E i \in DOMAIN cur_selected_params :
          Rerun(Inputs(cur_selected_models, cur_hide_same,
                       Remove(cur_selected_params, i), cur_selected_models_tab2), {"none"})

\* The user adds a model to the second multiselect of tab 2.
SelectModelTab2 ==
    /\ OnPage(run.tab2.shown)
    /\ \E m \in Range(all_models) \ Range(cur_selected_models_tab2) :
          Rerun(Inputs(cur_selected_models, cur_hide_same,
                       cur_selected_params, Append(cur_selected_models_tab2, m)), {"none"})

\* The user removes a model from the second multiselect of tab 2.
DeselectModelTab2 ==
    /\ OnPage(run.tab2.shown)
    /\ \E i \in DOMAIN cur_selected_models_tab2 :
          Rerun(Inputs(cur_selected_models, cur_hide_same,
                       cur_selected_params, Remove(cur_selected_models_tab2, i)), {"none"})

\* The CSV file is replaced, removed or created.
ChangeFile ==
    /\ \E file \in CacheFiles : file # disk /\ disk' = file
    /\ UNCHANGED <<cache, reads, HAS_REPORTLAB, run, pdf_arg, pdf_res>>

\* The cache is cleared (from the application's menu, or by a restart).
ClearCache ==
    /\ cache.cached
    /\ cache' = NotCached
    /\ reads' = 0
    /\ UNCHANGED <<disk, HAS_REPORTLAB, run, pdf_arg, pdf_res>>

\* create_pdf is called on pdf_arg.
CallCreatePdf ==
    /\ \E fault \in Faults :
          /\ Applicable(pdf_arg, fault)
          /\ pdf_res' = create_pdf(pdf_arg, fault)
    /\ UNCHANGED <<disk, cache, reads, HAS_REPORTLAB, run, pdf_arg>>

\* Tab 1 is used on small files while the renderer may fail.
Init == InitWith(SmallFiles, {NoFrame}, {TRUE})
Next ==
    \/ Open(Faults)
    \/ SelectModel(Faults)
    \/ DeselectModel(Faults)
    \/ ToggleHideSame(Faults)
Spec == Init /\ [][Next]_vars

\* The page is reloaded while the file changes and the cache is cleared.
InitCache == InitWith(CacheFiles, {NoFrame}, BOOLEAN)
NextCache == Open({"none"}) \/ ChangeFile \/ ClearCache
SpecCache == InitCache /\ [][NextCache]_vars

\* The page is opened on files of many headers.
InitLoad == InitWith(LoadFiles, {NoFrame}, BOOLEAN)
NextLoad == Open({"none"})
SpecLoad == InitLoad /\ [][NextLoad]_vars

\* Tab 1 is used on files of two parameters.
InitTab1 == InitWith(TabFiles, {NoFrame}, {TRUE})
NextTab1 ==
    \/ Open({"none"})
    \/ SelectModel({"none"})
    \/ DeselectModel({"none"})
    \/ ToggleHideSame({"none"})
SpecTab1 == InitTab1 /\ [][NextTab1]_vars

\* Tab 2 is used on files of two parameters.
InitTab2 == InitWith(TabFiles, {NoFrame}, {TRUE})
NextTab2 ==
    \/ Open({"none"})
    \/ SelectParam
    \/ DeselectParam
    \/ SelectModelTab2
    \/ DeselectModelTab2
SpecTab2 == InitTab2 /\ [][NextTab2]_vars

\* create_pdf is applied to small frames of arbitrary text.
InitPdf == InitWith({NoFile}, Grids, BOOLEAN)
NextPdf == CallCreatePdf
SpecPdf == InitPdf /\ [][NextPdf]_vars

----------------------------------------------------------------------------
(* Properties *)

\* The identifiers of the table's rows, in the order of the rows.
IdColumn(df) ==
    [r \in DOMAIN df.rows |->
        df.rows[r][CHOOSE p \in DOMAIN df.columns : df.columns[p] = MODEL]]

\* The elements of s at their first appearance, in the order of s.
FirstAppearances(s) ==
    Take(s, SelectSeq([i \in 1..Len(s) |-> i], LAMBDA i : \A j \in 1..(i - 1) : s[j] # s[i]))

\* The run displayed the comparison matrix of tab 1.
MatrixShown == run.stage \in {"done", "raised"} /\ run.tab1.shown = "matrix"

\* C1 as stated, on the tables whose identifiers are pairwise distinct: the
\* columns of the comparison matrix are the selected identifiers that occur in
\* the table, each once, in the order of their first appearance in the
\* selection.
C1_SelectionOrder ==
    (MatrixShown /\ Distinct(IdColumn(run.df))) =>
        run.tab1.df_display.columns =
            FirstAppearances(SelectSeq(run.inputs.selected_models,
                                       LAMBDA m : m \in Range(IdColumn(run.df))))

\* C1 amended: the columns of the comparison matrix are the identifiers of
\* the table's rows whose identifier is selected, one column per such row, in
\* the order of the rows in the table; every matrix row has one value per
\* column.
C1_TableOrder ==
    MatrixShown =>
        /\ run.tab1.df_display.columns =
               SelectSeq(IdColumn(run.df),
                         LAMBDA m : m \in Range(run.inputs.selected_models))
        /\ \A k \in DOMAIN run.tab1.df_display.rows :
               Len(run.tab1.df_display.rows[k]) = Len(run.tab1.df_display.columns)

\* The selection names B before A, the table holds A before B, and the matrix
\* shows A before B.
C1_Witness ==
    /\ MatrixShown
    /\ run.inputs.selected_models = <<B, A>>
    /\ IdColumn(run.df) = <<A, B>>
    /\ run.tab1.df_display.columns = <<A, B>>

\* The positions of the matrix rows with at least two distinct values, the
\* sentinel counted like any other value.
Divergent(matrix) == {k \in DOMAIN matrix.rows : Cardinality(Range(matrix.rows[k])) >= 2}

\* shown is matrix restricted to the rows at the positions keep, values and
\* order unchanged.
RestrictedTo(shown, matrix, keep) ==
    /\ shown.columns = matrix.columns
    /\ Len(shown.rows) = Cardinality(keep)
    /\ \E f \in [DOMAIN shown.rows -> keep] :
          /\ \A i, j \in DOMAIN shown.rows : i < j => f[i] < f[j]
          /\ \A i \in DOMAIN shown.rows :
                /\ shown.rows[i] = matrix.rows[f[i]]
                /\ shown.index[i] = matrix.index[f[i]]

\* C2: with the hide-identical filter enabled, the displayed matrix is the
\* pivoted matrix restricted to the rows with at least two distinct values
\* among the selected columns, the sentinel counting as a value; the retained
\* rows keep their values and their order.
C2_HideSame ==
    (MatrixShown /\ run.inputs.hide_same) =>
        LET matrix == transpose(run.df, isin_rows(run.df, run.inputs.selected_models))
        IN RestrictedTo(run.tab1.df_display, matrix, Divergent(matrix))

\* With the filter enabled, P1 is missing for both selected models and is
\* removed; P2 is missing for one of them only and is retained.
C2_Witness ==
    /\ MatrixShown
    /\ run.inputs.hide_same
    /\ run.tab1.df_display.columns = <<A, B>>
    /\ run.df.rows = <<<<SENTINEL, A, SENTINEL>>, <<SENTINEL, B, <<"1">>>>>>
    /\ run.tab1.df_display.index = <<P2>>
    /\ run.tab1.df_display.rows = <<<<SENTINEL, <<"1">>>>>>

\* The selected identifiers that occur in the table.
EffectiveSelection ==
    SelectSeq(run.inputs.selected_models, LAMBDA m : m \in Range(IdColumn(run.df)))

\* The run reached tab 1.
Tab1Reached == run.stage \in {"done", "raised"} /\ run.tab1.shown # "none"

\* C3: when no selected identifier occurs in the table, tab 1 ends in the
\* empty-selection outcome: no comparison matrix, no export grid, no CSV and
\* no PDF download, and no exception leaves tab 1.
C3_EmptySelection ==
    (Tab1Reached /\ EffectiveSelection = <<>>) =>
        /\ run.tab1.shown = "empty"
        /\ run.tab1.df_display = NoMatrix
        /\ run.tab1.export_df = NoFrame
        /\ ~run.tab1.csv
        /\ run.tab1.pdf = NoPdf
        /\ ~(run.stage = "raised" /\ run.at = "pdf_tab1")

\* The table has rows, the user has removed every model from the selection,
\* and the run ended with the empty-selection message in tab 1.
C3_Witness ==
    /\ run.stage = "done"
    /\ run.df.rows # <<>>
    /\ run.inputs.selected_models = <<>>
    /\ run.tab1.shown = "empty"
    /\ run.tab2.shown = "view"

\* C8 as stated: a renderer failure at any step of the PDF export of tab 1
\* (header cells, body cells, table construction, final build) is reported as
\* a failed export: create_pdf returns no document, no exception ends the run,
\* the matrix stays displayed and tab 2 is rendered.
C8_FailureCaught ==
    (Tab1Reached /\ run.tab1.pdf.step \in {"header", "body", "table", "build"}) =>
        /\ run.tab1.pdf.status = "none"
        /\ run.stage = "done"
        /\ run.tab1.shown = "matrix"
        /\ run.tab2.shown # "none"

\* The run called create_pdf.
PdfCalled == pdf_res.status # "skipped" /\ HAS_REPORTLAB

Count(s, c) == Cardinality({i \in DOMAIN s : s[i] = c})

\* The positions of text at which the line-break marker starts.
Breaks(text) ==
    {i \in 1..(Len(text) - Len(BR) + 1) : SubSeq(text, i, i + Len(BR) - 1) = BR}

\* The positions of text that hold an angle bracket outside a line-break
\* marker.
StrayBrackets(text) ==
    {i \in DOMAIN text :
        /\ text[i] \in {"<", ">"}
        /\ \A b \in Breaks(text) : i # b /\ i # b + Len(BR) - 1}

\* C5 as stated: every text handed to the renderer, header row included, has
\* no angle bracket other than those of line-break markers, and a body text
\* has one line-break marker for each newline of its cell.
C5_Sanitized ==
    PdfCalled =>
        /\ \A c \in DOMAIN pdf_res.header : StrayBrackets(pdf_res.header[c]) = {}
        /\ \A r \in DOMAIN pdf_res.body : \A c \in DOMAIN pdf_res.body[r] :
              /\ StrayBrackets(pdf_res.body[r][c]) = {}
              /\ pdf_arg.rows[r][c] # NULL =>
                    Cardinality(Breaks(pdf_res.body[r][c])) = Count(pdf_arg.rows[r][c], "\n")

\* The run displayed the filtered view of tab 2.
ViewShown == run.stage = "done" /\ run.tab2.shown = "view"

\* The position of the column of df labelled label.
ColumnOf(df, label) == CHOOSE p \in DOMAIN df.columns : df.columns[p] = label

\* row of the view holds the cells of the table row source under Model and
\* the chosen parameters, in that order.
Projects(row, source, df, labels) ==
    /\ Len(row) = Len(labels)
    /\ \A k \in DOMAIN labels : row[k] = source[ColumnOf(df, labels[k])]

\* C6 as stated, on the tables whose identifiers are pairwise distinct: the
\* header of the view is Model followed by the chosen parameters in the order
\* chosen, and the body has one row per selected identifier, in the order of
\* the selection, holding that identifier's values.
C6_SelectionOrder ==
    (ViewShown /\ Distinct(IdColumn(run.df))) =>
        LET labels == <<MODEL>> \o run.inputs.selected_params
            view == run.tab2.final_view
            selected == run.inputs.selected_models_tab2
        IN /\ view.columns = labels
           /\ Len(view.rows) = Len(selected)
           /\ \A i \in DOMAIN view.rows :
                 /\ view.rows[i][1] = selected[i]
                 /\ \E r \in DOMAIN run.df.rows :
                       Projects(view.rows[i], run.df.rows[r], run.df, labels)

\* C6 amended: the header of the view is Model followed by the chosen
\* parameters in the order chosen, and the body has one row per row of the
\* table whose identifier is selected, in the order of the table, holding
\* that row's cells under Model and the chosen parameters.
C6_TableOrder ==
    ViewShown =>
        LET labels == <<MODEL>> \o run.inputs.selected_params
            view == run.tab2.final_view
            sources == SelectSeq(run.df.rows,
                           LAMBDA row : row[ColumnOf(run.df, MODEL)]
                                            \in Range(run.inputs.selected_models_tab2))
        IN /\ view.columns = labels
           /\ Len(view.rows) = Len(sources)
           /\ \A i \in DOMAIN view.rows :
                 Projects(view.rows[i], sources[i], run.df, labels)

\* The parameters are chosen as P2, P1 and the models as B, A; the table
\* holds A before B, and the view lists A before B under Model, P2, P1.
C6_Witness ==
    /\ ViewShown
    /\ run.inputs.selected_params = <<P2, P1>>
    /\ run.inputs.selected_models_tab2 = <<B, A>>
    /\ run.df.rows = <<<<SENTINEL, A, <<"1">>>>, <<<<"1">>, B, SENTINEL>>>>
    /\ run.tab2.final_view.columns = <<MODEL, P2, P1>>
    /\ run.tab2.final_view.rows = <<<<A, <<"1">>, SENTINEL>>, <<B, SENTINEL, <<"1">>>>>>

\* The column labels of the file, blanks at both ends removed.
Trimmed(file) == [i \in DOMAIN file.columns |-> strip(file.columns[i])]

\* The fixed priority list of identifier labels.
PriorityList == <<CANSHU_XINGHAO, XINGHAO, MODEL, PRODUCT>>

\* The label the priority rule designates: the first name of the priority
\* list present among the labels, the first label when none is present.
Designated(labels) ==
    LET present == {i \in DOMAIN PriorityList : PriorityList[i] \in Range(labels)}
    IN IF present = {} THEN labels[1]
       ELSE PriorityList[CHOOSE i \in present : \A j \in present : i <= j]

\* The first load of the file has happened.
FirstLoadDone == cache.cached /\ disk.exists

\* C7: loading a file with at least one column succeeds and renames to Model
\* the columns carrying the label the priority rule designates among the
\* trimmed labels, leaving every other label as trimmed; loading a file
\* without columns fails with a reported error.
C7_IdentifierColumn ==
    FirstLoadDone =>
        IF disk.columns = <<>>
        THEN ~cache.value.ok /\ cache.value.error
        ELSE /\ cache.value.ok
             /\ cache.value.columns =
                    [i \in DOMAIN disk.columns |->
                        IF Trimmed(disk)[i] = Designated(Trimmed(disk))
                        THEN MODEL ELSE Trimmed(disk)[i]]

\* The file holds Product before a padded second-priority label: the second
\* label is the one renamed.
C7_Witness ==
    /\ FirstLoadDone
    /\ disk.columns = <<PRODUCT, <<" ">> \o XINGHAO \o <<" ">>>>
    /\ cache.value.columns = <<PRODUCT, MODEL>>

\* C9 as stated: the table loaded from a file with at least one column has
\* trimmed, pairwise distinct column labels, exactly one of them Model.
C9_DistinctColumns ==
    (FirstLoadDone /\ disk.columns # <<>>) =>
        /\ cache.value.ok
        /\ \A i \in DOMAIN cache.value.columns :
              strip(cache.value.columns[i]) = cache.value.columns[i]
        /\ Distinct(cache.value.columns)
        /\ Cardinality({i \in DOMAIN cache.value.columns :
                           cache.value.columns[i] = MODEL}) = 1

\* C10: within one lifetime of the cache the file is read at most once, every
\* run works on the cached table, and the cached table never changes, whatever
\* happens to the file, until the cache is cleared.
C10_LoadedOnce ==
    /\ [](reads <= 1)
    /\ [](cache.cached => (run.stage # "init" /\ run.df = cache.value))
    /\ [][(cache.cached /\ cache'.cached) => cache' = cache]_vars

\* The file was changed after the load: a run has shown the cached table, which
\* is not what the file on disk would load.
C10_Witness ==
    /\ cache.cached
    /\ cache.value.ok
    /\ disk.exists
    /\ disk.columns # <<>>
    /\ load_data_body(disk) # cache.value
    /\ run.stage = "done"
    /\ run.df = cache.value

====
